---- MODULE Spec2Model ----
(***************************************************************************)
(* Model of the reading-list API's article-creation pipeline.              *)
(*                                                                         *)
(* The repository holds three successive builds of the CreateArticle       *)
(* handler:                                                                *)
(*   "gemini_local"    src/unnamed/part_000  local fetch + Gemini stream,  *)
(*                     retry loop with linear backoff and a 60s deadline   *)
(*   "gemini_markdown" src/internal/server/articles.go  Gemini stream over *)
(*                     the fetched page converted to markdown, retry loop  *)
(*   "exa"             src/unnamed/part_001  Exa contents + answer, one    *)
(*                     extraction per request                              *)
(* A behaviour runs one build (variant) against one sqlite store.          *)
(* A handler is cut into steps at its blocking calls: the store queries,   *)
(* the page fetch, each extraction attempt, the backoff sleep.             *)
(***************************************************************************)
EXTENDS Integers, Sequences, FiniteSets, TLC

MaxRetries == 3
MaxRequests == 2
NumClients == 2
MaxStatuses == 1
MaxParts == 2
MaxFragments == 2
MaxAffix == 2
MaxRetryAfter == 1
MaxDateLen == 3
MaxBlocks == 2
MaxCandidates == 2
MaxAuthors == 2
MaxAuthorBlocks == 1
MaxSlack == 5
MaxRows == 21
\* Width of Go's int in this model of the paginated listing.
IntBits == 8

\* Identities of the request-handling goroutines.
Reqs == 1..NumClients

Variants == {"gemini_local", "gemini_markdown", "exa"}

\* articleLink values of a request body: "" is the missing field.
Links == {"", "notaurl", "http://a"}

\* title / summary strings a provider can return.
Texts == {"", " ", "T"}

\* type values a provider can return.
Types == {-3, -2, -1, 0, 1, 2, 3}

\* strings.TrimSpace on the strings of Texts.
TrimSpace(s) == IF s = " " THEN "" ELSE s

\* The five-field object decoded from the provider output (the fields the
\* handler branches on).
Details == [title : Texts, summary : Texts, type : Types]

NoDetails == [title |-> "", summary |-> "", type |-> 0]

\* A *types.Article / *GeminiArticleDetails: nil or a pointer to a record.
NilResult == [nil |-> TRUE, title |-> "", summary |-> "", type |-> 0]

Ptr(d) == [nil |-> FALSE, title |-> d.title, summary |-> d.summary, type |-> d.type]

\* The NUM_RETRIES environment variable: unset, non-numeric text, or the
\* decimal text of an integer.
EnvValues ==
  {[kind |-> "unset", n |-> 0], [kind |-> "text", n |-> 0]}
    \cup {[kind |-> "int", n |-> i] : i \in -1..MaxRetries}

\* strconv.Atoi(os.Getenv("NUM_RETRIES")): the value, or 0 and an error.
Atoi(s) ==
  IF s.kind = "int" THEN [val |-> s.n, err |-> FALSE]
                    ELSE [val |-> 0, err |-> TRUE]

VARIABLES
  variant,        \* the build that is running
  NUM_RETRIES,    \* the NUM_RETRIES environment variable
  pool,           \* the five-field objects the provider can return in this run
  clients,        \* the request-handling goroutines
  quota,          \* requests that may still be submitted
  store,          \* the articles table, in insertion order
  pc,             \* position of each handler
  articleLink,    \* data.ArticleLink
  exists,         \* what ArticleExists returned to this request
  storedAtCheck,  \* the link was in the table when ArticleExists ran
  numRetries,     \* the attempt budget of the request
  attempt,        \* the loop variable
  attempts,       \* calls of extractArticleMetadata made by the request
  fetches,        \* calls of fetchAndExtractLocally made by the request
  geminiResult,   \* result of the last extraction (article in the other builds)
  geminiErr,      \* error of the last extraction (extractionErr / err)
  allMinusTwo,    \* every extraction so far returned a parsed type -2
  ctxDone,        \* ctx.Err() != nil
  sleeps,         \* seconds slept by time.Sleep, in order
  insertCalls,    \* calls of InsertArticle made by the request
  insertArg,      \* the pointer handed to InsertArticle
  insertErr,      \* what InsertArticle returned to this request
  outcome,        \* the response rendered
  wrapped,        \* the error wrapped by the "after %d attempts" response
  localContent,   \* the *ExtractedContent handed to the extraction (part_000)
  fetchFailed,    \* the page fetch of the request did not return a 200 page
  answerCalls,    \* calls of exaClient.Answer made by the request
  answerDue,      \* Contents answered for the link but its summary did not parse
  statusFailed,   \* Contents answered with a failed fetch status for the link
  parses,         \* provider outputs of the request handed to a parser
  events,         \* storage, fetch and provider calls of the request, in order
  arg,            \* input of the library function under study
  ret             \* its result

vars == <<variant, NUM_RETRIES, pool, clients, quota, store, pc, articleLink,
          exists, storedAtCheck, numRetries, attempt, attempts, fetches,
          geminiResult, geminiErr, allMinusTwo, ctxDone, sleeps, insertCalls,
          insertArg, insertErr, outcome, wrapped, localContent, fetchFailed, answerCalls,
          answerDue, statusFailed, parses, events, arg, ret>>

envVars == <<variant, NUM_RETRIES, pool, clients>>

localVars == <<localContent, fetchFailed>>

exaVars == <<answerCalls, answerDue, statusFailed, parses>>

fnVars == <<arg, ret>>

\* Everything CreateArticle and its requests own.
handlerVars ==
  <<variant, NUM_RETRIES, pool, clients, quota, store, pc, articleLink,
    exists, storedAtCheck, numRetries, attempt, attempts, fetches,
    geminiResult, geminiErr, allMinusTwo, ctxDone, sleeps, insertCalls,
    insertArg, insertErr, outcome, wrapped, localContent, fetchFailed, answerCalls,
    answerDue, statusFailed, parses, events>>

\* No library function is under study.
NoCall == [fn |-> "none"]

----------------------------------------------------------------------------
\* Storage collaborator (internal/database/article_query.go)

\* The links of the rows in the table.
StoredLinks == {store[i].link : i \in 1..Len(store)}

\* ArticleExists that never finds a row.
ArticleExistsNever(st, link) == FALSE

\* select * from articles where link = $1: a row was found.
ArticleExists(st, link) == \E i \in 1..Len(st) : st[i].link = link

\* Whether the articles table rejects a second row with the same link.  The
\* schema is not part of the sources; the insert statement has no conflict
\* clause and the specification states that uniqueness rests on the
\* existence check alone.
UniqueLinkConstraint == FALSE

\* insert into articles (...) values (...): the table after the insert.
InsertArticle(st, link, a) ==
  Append(st, [id |-> Len(st) + 1, link |-> link, title |-> a.title,
              summary |-> a.summary, type |-> a.type])

----------------------------------------------------------------------------
\* Extraction (one call of extractArticleMetadata), as a function of what
\* the provider does during the call.

GeminiLocalKinds ==
  {"client_err", "stream_err", "ctx_cancel", "ctx_after", "empty",
   "no_json", "bad_json", "json"}

GeminiMarkdownKinds ==
  {"client_err", "fetch_err", "stream_err", "no_json", "bad_json", "json"}

ExaKinds ==
  {"client_err", "contents_err", "status_err", "no_results", "summary_json",
   "answer_err", "answer_no_json", "answer_bad_json", "answer_json"}

Behaviours(kinds, jsonKinds, ds) ==
  {[kind |-> k, d |-> NoDetails] : k \in kinds \ jsonKinds}
    \cup {[kind |-> k, d |-> d] : k \in jsonKinds, d \in ds}

\* part_000: client construction, stream consumption, the context check
\* after the stream, the empty-text check, the regex, json.Unmarshal.
extractArticleMetadataLocal(pb) ==
  CASE pb.kind = "client_err" -> [res |-> NilResult, err |-> "client"]
    [] pb.kind = "ctx_cancel" -> [res |-> NilResult, err |-> "context"]
    [] pb.kind = "stream_err" -> [res |-> NilResult, err |-> "stream"]
    [] pb.kind = "ctx_after"  -> [res |-> NilResult, err |-> "context"]
    [] pb.kind = "empty"      -> [res |-> NilResult, err |-> "empty"]
    [] pb.kind = "no_json"    -> [res |-> NilResult, err |-> "regex"]
    [] pb.kind = "bad_json"   -> [res |-> NilResult, err |-> "unmarshal"]
    [] OTHER                  -> [res |-> Ptr(pb.d), err |-> "nil"]

\* articles.go: client construction, getArticleAsMarkdown, the stream, the
\* regex, json.Unmarshal; the article is built without validation.
extractArticleMetadataMarkdown(pb) ==
  CASE pb.kind = "client_err" -> [res |-> NilResult, err |-> "client"]
    [] pb.kind = "fetch_err"  -> [res |-> NilResult, err |-> "fetch"]
    [] pb.kind = "stream_err" -> [res |-> NilResult, err |-> "stream"]
    [] pb.kind = "no_json"    -> [res |-> NilResult, err |-> "regex"]
    [] pb.kind = "bad_json"   -> [res |-> NilResult, err |-> "unmarshal"]
    [] OTHER                  -> [res |-> Ptr(pb.d), err |-> "nil"]

\* part_001: client construction, Contents, per-URL status, result count,
\* parse of the summary, else the Answer call and its parse; then trimming
\* and the required-field check.
extractArticleMetadataExa(pb) ==
  CASE pb.kind = "client_err"      -> [res |-> NilResult, err |-> "client"]
    [] pb.kind = "contents_err"    -> [res |-> NilResult, err |-> "contents"]
    [] pb.kind = "status_err"      -> [res |-> NilResult, err |-> "status"]
    [] pb.kind = "no_results"      -> [res |-> NilResult, err |-> "no_results"]
    [] pb.kind = "answer_err"      -> [res |-> NilResult, err |-> "answer"]
    [] pb.kind = "answer_no_json"  -> [res |-> NilResult, err |-> "answer"]
    [] pb.kind = "answer_bad_json" -> [res |-> NilResult, err |-> "answer"]
    [] OTHER ->
         LET title == TrimSpace(pb.d.title)
             summary == TrimSpace(pb.d.summary)
         IN IF title = "" \/ summary = ""
              THEN [res |-> NilResult, err |-> "incomplete"]
              ELSE [res |-> Ptr([title |-> title, summary |-> summary,
                                 type |-> pb.d.type]),
                    err |-> "nil"]

\* Contents response: the per-URL statuses and the summary of a result.
StatusValues == {"success", "error", "Error"}

\* strings.EqualFold on the status values.
ToLower(s) == IF s = "Error" THEN "error" ELSE s

EqualFold(a, b) == ToLower(a) = ToLower(b)

ContentStatus == [id : Links \ {""}, status : StatusValues]

StatusLists == UNION {[1..n -> ContentStatus] : n \in 0..MaxStatuses}

\* The json.RawMessage of results[0].summary: absent, an object (decodable
\* or not), a JSON string (holding an object or not), any other JSON value.
RawKinds == {"empty", "object", "bad_object", "string_json", "string_no_json", "other"}

Raws(ds) ==
  {[kind |-> k, d |-> NoDetails] : k \in RawKinds \ {"object", "string_json"}}
    \cup {[kind |-> k, d |-> d] : k \in {"object", "string_json"}, d \in ds}

\* The answer text of the Answer endpoint, or its error.
Answers(ds) ==
  {[kind |-> k, d |-> NoDetails] : k \in {"err", "no_json", "bad_json"}}
    \cup {[kind |-> "json", d |-> d] : d \in ds}

\* exaValidateStatuses that accepts every status list.
exaValidateStatusesNever(link, statuses) == "nil"

\* exaValidateStatuses: an error for the first status of the submitted link
\* that reads "error".
exaValidateStatuses(link, statuses) ==
  IF \E i \in 1..Len(statuses) :
       statuses[i].id = link /\ EqualFold(statuses[i].status, "error")
    THEN "status" ELSE "nil"

\* parseExtractedDetails: the summary decoded into the five fields.
parseExtractedDetails(raw) ==
  CASE raw.kind = "object"      -> [ok |-> TRUE, d |-> raw.d]
    [] raw.kind = "string_json" -> [ok |-> TRUE, d |-> raw.d]
    [] OTHER                    -> [ok |-> FALSE, d |-> NoDetails]

\* A Contents stage that asks the Answer endpoint for every result.
exaContentsStageAlwaysAnswer(link, env) ==
  IF ~env.client THEN "client_err"
  ELSE IF env.contents = "err" THEN "contents_err"
  ELSE IF exaValidateStatuses(link, env.statuses) # "nil" THEN "status_err"
  ELSE IF env.results = 0 THEN "no_results"
  ELSE "answer"

\* part_001:221-267, the extraction up to the choice between the parsed
\* summary and the Answer call.
exaContentsStage(link, env) ==
  IF ~env.client THEN "client_err"
  ELSE IF env.contents = "err" THEN "contents_err"
  ELSE IF exaValidateStatuses(link, env.statuses) # "nil" THEN "status_err"
  ELSE IF env.results = 0 THEN "no_results"
  ELSE IF parseExtractedDetails(env.raw).ok THEN "summary_json"
  ELSE "answer"

\* exaExtractViaAnswer: the Answer call and the parse of its text.
exaExtractViaAnswer(ans) ==
  CASE ans.kind = "err"      -> "answer_err"
    [] ans.kind = "no_json"  -> "answer_no_json"
    [] ans.kind = "bad_json" -> "answer_bad_json"
    [] OTHER                 -> "answer_json"

\* What one extraction meets: no client, a failed Contents call, or a
\* Contents response with its statuses and at most one result.
ExaEnv(client, contents, statuses, results, raw) ==
  [client |-> client, contents |-> contents, statuses |-> statuses,
   results |-> results, raw |-> raw]

EmptyRaw == [kind |-> "empty", d |-> NoDetails]

ExaEnvs(ds) ==
  {ExaEnv(FALSE, "err", <<>>, 0, EmptyRaw), ExaEnv(TRUE, "err", <<>>, 0, EmptyRaw)}
    \cup {ExaEnv(TRUE, "ok", s, 0, EmptyRaw) : s \in StatusLists}
    \cup {ExaEnv(TRUE, "ok", s, 1, w) : s \in StatusLists, w \in Raws(ds)}

----------------------------------------------------------------------------
\* Local extraction (part_000, fetchAndExtractLocally).

NilContent ==
  [nil |-> TRUE, TitleFound |-> FALSE, AuthorFound |-> FALSE,
   DateFound |-> FALSE, BodyFound |-> FALSE]

\* &ExtractedContent{URL: url}
EmptyContent ==
  [nil |-> FALSE, TitleFound |-> FALSE, AuthorFound |-> FALSE,
   DateFound |-> FALSE, BodyFound |-> FALSE]

\* What the selectors find on a fetched page.
PageHints ==
  {EmptyContent,
   [nil |-> FALSE, TitleFound |-> TRUE, AuthorFound |-> TRUE,
    DateFound |-> TRUE, BodyFound |-> TRUE]}

\* The fetch: a 200 page, another status, an unparsable body, a network
\* error, the 30s client timeout, or the request context ending meanwhile.
FetchResults == {"ok", "status", "parse_err", "net_err", "timeout", "cancelled"}

\* fetchAndExtractLocally: (content, err).
fetchAndExtractLocally(f, page) ==
  CASE f = "ok"        -> [content |-> page, err |-> "nil"]
    [] f = "status"    -> [content |-> EmptyContent, err |-> "nil"]
    [] f = "parse_err" -> [content |-> EmptyContent, err |-> "nil"]
    [] OTHER           -> [content |-> NilContent, err |-> f]

\* A handler that keeps the nil content of a failed fetch.
LocalContentKeepNil(content, err) == content

\* part_000:448-455: a nil content of a failed fetch becomes an empty struct.
LocalContentOrEmpty(content, err) ==
  IF err # "nil" /\ content.nil THEN EmptyContent ELSE content

----------------------------------------------------------------------------
\* The handler's decisions, one definition per condition of the code.

\* ArticleRequest.Bind: the request is rejected.
BindErr(link) == link = ""

\* A loop that never looks at the context.
CtxErrNever(done) == FALSE

\* ctx.Err() != nil at the top of the retry loop (part_000).
CtxErr(done) == done

\* part_000: numRetries <= 0 is raised to 1.
ClampRetries(n) == IF n <= 0 THEN 1 ELSE n

\* The type test that ends the loop with a result to persist.
SuccessType(t) == t >= 0

\* A classification that retries a type -1 result like any other failure.
ClassifyLocalRetryAll(res, err) ==
  IF err = "nil" /\ ~res.nil /\ SuccessType(res.type) THEN "success"
  ELSE "retry"

\* part_000, classification of one attempt's (geminiResult, geminiErr).
ClassifyLocal(res, err) ==
  IF err = "nil" /\ ~res.nil /\ SuccessType(res.type) THEN "success"
  ELSE IF err = "nil" /\ ~res.nil /\ res.type = -1 THEN "reject"
  ELSE "retry"

\* A loop without the break on article.Type >= 0.
ClassifyMarkdownNoBreak(res, err) ==
  IF err # "nil" THEN "error"
  ELSE IF res.type = -1 THEN "reject"
  ELSE IF res.type = -2 THEN "retry"
  ELSE "fallthrough"

\* articles.go, classification of one attempt's (article, extractionErr).
ClassifyMarkdown(res, err) ==
  IF err # "nil" THEN "error"
  ELSE IF SuccessType(res.type) THEN "success"
  ELSE IF res.type = -1 THEN "reject"
  ELSE IF res.type = -2 THEN "retry"
  ELSE "fallthrough"

\* part_001, what the handler does with (article, err).
ClassifyExa(res, err) ==
  IF err # "nil" THEN "error"
  ELSE IF res.type = -1 THEN "reject"
  ELSE "success"

\* part_000: the check on the combined article before the insert.
Incomplete(a) == a.title = "" \/ a.summary = ""

\* part_000: time.Sleep(time.Duration(attempt+1) * 1 * time.Second), seconds.
Backoff(att) == att + 1

IsMinusTwo(res, err) == err = "nil" /\ ~res.nil /\ res.type = -2

----------------------------------------------------------------------------
\* State after construction.

InitRequests ==
  /\ store = <<>>
  /\ pc = [r \in clients |-> "idle"]
  /\ articleLink = [r \in clients |-> ""]
  /\ exists = [r \in clients |-> FALSE]
  /\ storedAtCheck = [r \in clients |-> FALSE]
  /\ numRetries = [r \in clients |-> 0]
  /\ attempt = [r \in clients |-> 0]
  /\ attempts = [r \in clients |-> 0]
  /\ fetches = [r \in clients |-> 0]
  /\ geminiResult = [r \in clients |-> NilResult]
  /\ geminiErr = [r \in clients |-> "nil"]
  /\ allMinusTwo = [r \in clients |-> TRUE]
  /\ ctxDone = [r \in clients |-> FALSE]
  /\ sleeps = [r \in clients |-> <<>>]
  /\ insertCalls = [r \in clients |-> 0]
  /\ insertArg = [r \in clients |-> NilResult]
  /\ insertErr = [r \in clients |-> "none"]
  /\ outcome = [r \in clients |-> "none"]
  /\ wrapped = [r \in clients |-> "none"]
  /\ localContent = [r \in clients |-> NilContent]
  /\ fetchFailed = [r \in clients |-> FALSE]
  /\ answerCalls = [r \in clients |-> 0]
  /\ answerDue = [r \in clients |-> FALSE]
  /\ statusFailed = [r \in clients |-> FALSE]
  /\ parses = [r \in clients |-> 0]
  /\ events = [r \in clients |-> <<>>]

\* One handler at a time, any build, any NUM_RETRIES, any provider output.
Init ==
  /\ variant \in Variants
  /\ NUM_RETRIES \in (IF variant = "exa" THEN {[kind |-> "unset", n |-> 0]}
                                         ELSE EnvValues)
  /\ pool = Details
  /\ clients = {1}
  /\ quota = MaxRequests
  /\ InitRequests
  /\ arg = NoCall
  /\ ret = NoCall

\* Overlapping handlers, one attempt each, a provider that answers with a
\* well-formed article.
InitConc ==
  /\ variant \in Variants
  /\ NUM_RETRIES = [kind |-> "int", n |-> 1]
  /\ pool = {[title |-> "T", summary |-> "S", type |-> 0]}
  /\ clients = 1..NumClients
  /\ quota = NumClients
  /\ InitRequests
  /\ arg = NoCall
  /\ ret = NoCall

\* No request is served: a library function is studied on its own.
InitNoRequests ==
  /\ variant = "exa"
  /\ NUM_RETRIES = [kind |-> "unset", n |-> 0]
  /\ pool = {}
  /\ clients = {}
  /\ quota = 0
  /\ InitRequests

----------------------------------------------------------------------------
\* Steps of CreateArticle.

\* The handler ends with response o.
Finish(r, o) ==
  /\ pc' = [pc EXCEPT ![r] = "done"]
  /\ outcome' = [outcome EXCEPT ![r] = o]

\* A request arrives: render.Bind, ArticleExists, and the reading of the
\* attempt budget where no blocking call separates it from the check.
CreateArticle(r) ==
  /\ r \in clients
  /\ pc[r] \in {"idle", "done"}
  /\ quota > 0
  /\ quota' = quota - 1
  /\ \E link \in Links, dbErr \in BOOLEAN :
       LET found == ArticleExists(store, link)
           n == Atoi(NUM_RETRIES)
           queried == ~BindErr(link)
           passed == queried /\ ~dbErr /\ ~found
       IN /\ articleLink' = [articleLink EXCEPT ![r] = link]
          /\ events' = [events EXCEPT ![r] = IF queried THEN <<"exists">> ELSE <<>>]
          /\ storedAtCheck' = [storedAtCheck EXCEPT ![r] = queried /\ link \in StoredLinks]
          /\ exists' = [exists EXCEPT ![r] = queried /\ ~dbErr /\ found]
          /\ numRetries' = [numRetries EXCEPT ![r] =
               IF passed /\ variant = "gemini_markdown" /\ ~n.err THEN n.val
               ELSE IF passed /\ variant = "exa" THEN 1
               ELSE 0]
          /\ IF BindErr(link) THEN Finish(r, "invalid_request")
             ELSE IF dbErr THEN Finish(r, "db_error")
             ELSE IF found THEN Finish(r, "already_exists")
             ELSE IF variant = "gemini_local"
               THEN /\ pc' = [pc EXCEPT ![r] = "fetch"]
                    /\ outcome' = [outcome EXCEPT ![r] = "none"]
             ELSE IF variant = "gemini_markdown"
               THEN IF n.err THEN Finish(r, "config_error")
                    ELSE /\ pc' = [pc EXCEPT ![r] =
                                     IF n.val <= 0 THEN "insert" ELSE "loop"]
                         /\ outcome' = [outcome EXCEPT ![r] = "none"]
             ELSE /\ pc' = [pc EXCEPT ![r] = "loop"]
                  /\ outcome' = [outcome EXCEPT ![r] = "none"]
  /\ attempt' = [attempt EXCEPT ![r] = 0]
  /\ attempts' = [attempts EXCEPT ![r] = 0]
  /\ fetches' = [fetches EXCEPT ![r] = 0]
  /\ geminiResult' = [geminiResult EXCEPT ![r] = NilResult]
  /\ geminiErr' = [geminiErr EXCEPT ![r] = "nil"]
  /\ allMinusTwo' = [allMinusTwo EXCEPT ![r] = TRUE]
  /\ ctxDone' = [ctxDone EXCEPT ![r] = FALSE]
  /\ sleeps' = [sleeps EXCEPT ![r] = <<>>]
  /\ insertCalls' = [insertCalls EXCEPT ![r] = 0]
  /\ insertArg' = [insertArg EXCEPT ![r] = NilResult]
  /\ insertErr' = [insertErr EXCEPT ![r] = "none"]
  /\ wrapped' = [wrapped EXCEPT ![r] = "none"]
  /\ localContent' = [localContent EXCEPT ![r] = NilContent]
  /\ fetchFailed' = [fetchFailed EXCEPT ![r] = FALSE]
  /\ answerCalls' = [answerCalls EXCEPT ![r] = 0]
  /\ answerDue' = [answerDue EXCEPT ![r] = FALSE]
  /\ statusFailed' = [statusFailed EXCEPT ![r] = FALSE]
  /\ parses' = [parses EXCEPT ![r] = 0]
  /\ UNCHANGED <<envVars, fnVars, store>>

\* part_000: the 60s context is created, the page is fetched and parsed
\* locally (a failure is logged and ignored), NUM_RETRIES is read.
FetchAndExtractLocally(r) ==
  /\ r \in clients
  /\ variant = "gemini_local"
  /\ pc[r] = "fetch"
  /\ \E f \in FetchResults, page \in PageHints :
       LET res == fetchAndExtractLocally(f, page)
       IN /\ ctxDone' = [ctxDone EXCEPT ![r] = (f = "cancelled")]
          /\ localContent' = [localContent EXCEPT ![r] =
                                LocalContentOrEmpty(res.content, res.err)]
          /\ fetchFailed' = [fetchFailed EXCEPT ![r] = f \notin {"ok", "parse_err"}]
  /\ events' = [events EXCEPT ![r] = Append(@, "fetch")]
  /\ fetches' = [fetches EXCEPT ![r] = @ + 1]
  /\ numRetries' = [numRetries EXCEPT ![r] = ClampRetries(Atoi(NUM_RETRIES).val)]
  /\ attempt' = [attempt EXCEPT ![r] = 0]
  /\ pc' = [pc EXCEPT ![r] = "loop"]
  /\ UNCHANGED <<envVars, fnVars, exaVars, quota, store, articleLink, exists, storedAtCheck,
                 attempts, geminiResult, geminiErr, allMinusTwo, sleeps,
                 insertCalls, insertArg, insertErr, outcome, wrapped>>

\* part_000: the request's context expires or is cancelled while the
\* handler sleeps between attempts or is about to insert.
DeadlineElapses(r) ==
  /\ r \in clients
  /\ variant = "gemini_local"
  /\ pc[r] \in {"loop", "insert"}
  /\ ~ctxDone[r]
  /\ ctxDone' = [ctxDone EXCEPT ![r] = TRUE]
  /\ UNCHANGED <<envVars, fnVars, localVars, exaVars, events, quota, store, pc, articleLink, exists, storedAtCheck,
                 numRetries, attempt, attempts, fetches, geminiResult,
                 geminiErr, allMinusTwo, sleeps, insertCalls, insertArg, insertErr,
                 outcome, wrapped>>

\* part_000: the loop finds ctx.Err() != nil before an attempt.
TimedOut(r) ==
  /\ r \in clients
  /\ variant = "gemini_local"
  /\ pc[r] = "loop"
  /\ CtxErr(ctxDone[r])
  /\ Finish(r, "timeout")
  /\ UNCHANGED <<envVars, fnVars, localVars, exaVars, events, quota, store, articleLink, exists, storedAtCheck,
                 numRetries, attempt, attempts, fetches, geminiResult,
                 geminiErr, allMinusTwo, ctxDone, sleeps, insertCalls,
                 insertArg, insertErr, wrapped>>

\* What one attempt leaves behind in every build.
Attempted(r, out) ==
  /\ attempts' = [attempts EXCEPT ![r] = @ + 1]
  /\ events' = [events EXCEPT ![r] = Append(@, "provider")]
  /\ geminiResult' = [geminiResult EXCEPT ![r] = out.res]
  /\ geminiErr' = [geminiErr EXCEPT ![r] = out.err]
  /\ allMinusTwo' = [allMinusTwo EXCEPT ![r] = @ /\ IsMinusTwo(out.res, out.err)]

\* part_000: one iteration of the retry loop past the context check, with
\* the build and validation of the article when the loop breaks.
AttemptLocal(r) ==
  /\ r \in clients
  /\ variant = "gemini_local"
  /\ pc[r] = "loop"
  /\ ~CtxErr(ctxDone[r])
  /\ \E pb \in Behaviours(GeminiLocalKinds, {"json"}, pool) :
       LET out == extractArticleMetadataLocal(pb)
           class == ClassifyLocal(out.res, out.err)
           last == attempt[r] = numRetries[r] - 1
       IN /\ Attempted(r, out)
          /\ ctxDone' = [ctxDone EXCEPT ![r] = @ \/ pb.kind \in {"ctx_cancel", "ctx_after"}]
          /\ CASE class = "success" ->
                    /\ IF Incomplete(out.res)
                         THEN Finish(r, "incomplete")
                         ELSE /\ pc' = [pc EXCEPT ![r] = "insert"]
                              /\ UNCHANGED outcome
                    /\ UNCHANGED <<attempt, sleeps, wrapped>>
               [] class = "reject" ->
                    /\ Finish(r, "rejected")
                    /\ UNCHANGED <<attempt, sleeps, wrapped>>
               [] class = "retry" /\ last ->
                    /\ Finish(r, "exhausted")
                    /\ wrapped' = [wrapped EXCEPT ![r] = out.err]
                    /\ UNCHANGED <<attempt, sleeps>>
               [] OTHER ->
                    /\ sleeps' = [sleeps EXCEPT ![r] = Append(@, Backoff(attempt[r]))]
                    /\ attempt' = [attempt EXCEPT ![r] = @ + 1]
                    /\ UNCHANGED <<pc, outcome, wrapped>>
  /\ UNCHANGED <<envVars, fnVars, localVars, exaVars, quota, store, articleLink, exists, storedAtCheck,
                 numRetries, fetches, insertCalls, insertArg, insertErr>>

\* articles.go: one iteration of "for attempt := range numRetries".
AttemptMarkdown(r) ==
  /\ r \in clients
  /\ variant = "gemini_markdown"
  /\ pc[r] = "loop"
  /\ \E pb \in Behaviours(GeminiMarkdownKinds, {"json"}, pool) :
       LET out == extractArticleMetadataMarkdown(pb)
           class == ClassifyMarkdown(out.res, out.err)
           last == attempt[r] = numRetries[r] - 1
       IN /\ Attempted(r, out)
          /\ CASE class = "error" ->
                    /\ Finish(r, "extraction_error")
                    /\ UNCHANGED attempt
               [] class = "success" ->
                    /\ pc' = [pc EXCEPT ![r] = "insert"]
                    /\ UNCHANGED <<outcome, attempt>>
               [] class = "reject" ->
                    /\ Finish(r, "rejected")
                    /\ UNCHANGED attempt
               [] class = "retry" /\ last ->
                    /\ Finish(r, "exhausted")
                    /\ UNCHANGED attempt
               [] class = "fallthrough" /\ last ->
                    /\ pc' = [pc EXCEPT ![r] = "insert"]
                    /\ UNCHANGED <<outcome, attempt>>
               [] OTHER ->
                    /\ attempt' = [attempt EXCEPT ![r] = @ + 1]
                    /\ UNCHANGED <<pc, outcome>>
  /\ UNCHANGED <<envVars, fnVars, localVars, exaVars, quota, store, articleLink, exists, storedAtCheck,
                 numRetries, fetches, ctxDone, sleeps, insertCalls, insertArg, insertErr,
                 wrapped>>

\* part_001: what follows a returned extraction: the error response, the
\* type test, or the insert.
ExaExtracted(r, out) ==
  LET class == ClassifyExa(out.res, out.err)
  IN /\ geminiResult' = [geminiResult EXCEPT ![r] = out.res]
     /\ geminiErr' = [geminiErr EXCEPT ![r] = out.err]
     /\ allMinusTwo' = [allMinusTwo EXCEPT ![r] = @ /\ IsMinusTwo(out.res, out.err)]
     /\ CASE class = "error" ->
               Finish(r, IF out.err = "incomplete" THEN "incomplete"
                                                   ELSE "extraction_error")
          [] class = "reject" -> Finish(r, "rejected")
          [] OTHER -> /\ pc' = [pc EXCEPT ![r] = "insert"]
                      /\ UNCHANGED outcome

\* part_001: the extraction up to the return of the Contents call: client
\* construction, Contents, the per-URL statuses, the result count and the
\* parse of the first summary.  An unparsable summary leaves the Answer call
\* pending.
AttemptExa(r) ==
  /\ r \in clients
  /\ variant = "exa"
  /\ pc[r] = "loop"
  /\ \E env \in ExaEnvs(pool) :
       LET link == articleLink[r]
           stage == exaContentsStage(link, env)
           answered == env.client /\ env.contents = "ok"
           failed == \E i \in 1..Len(env.statuses) :
                       /\ env.statuses[i].id = link
                       /\ ToLower(env.statuses[i].status) = "error"
           parsable == env.raw.kind \in {"object", "string_json"}
       IN /\ statusFailed' = [statusFailed EXCEPT ![r] = answered /\ failed]
          /\ answerDue' = [answerDue EXCEPT ![r] =
                            answered /\ ~failed /\ env.results >= 1 /\ ~parsable]
          /\ parses' = [parses EXCEPT ![r] =
                         IF stage \in {"summary_json", "answer"} THEN @ + 1 ELSE @]
          /\ attempts' = [attempts EXCEPT ![r] = @ + 1]
          /\ events' = [events EXCEPT ![r] =
                         IF stage = "client_err" THEN @ ELSE Append(@, "provider")]
          /\ IF stage = "answer"
               THEN /\ pc' = [pc EXCEPT ![r] = "answer"]
                    /\ UNCHANGED <<geminiResult, geminiErr, allMinusTwo, outcome>>
               ELSE ExaExtracted(r, extractArticleMetadataExa(
                                      [kind |-> stage,
                                       d |-> parseExtractedDetails(env.raw).d]))
  /\ UNCHANGED <<envVars, fnVars, localVars, answerCalls, quota, store,
                 articleLink, exists, storedAtCheck, numRetries, attempt,
                 fetches, ctxDone, sleeps, insertCalls, insertArg, insertErr, wrapped>>

\* part_001: exaExtractViaAnswer and the rest of the extraction after it.
ExaAnswer(r) ==
  /\ r \in clients
  /\ variant = "exa"
  /\ pc[r] = "answer"
  /\ \E ans \in Answers(pool) :
       /\ answerCalls' = [answerCalls EXCEPT ![r] = @ + 1]
       /\ parses' = [parses EXCEPT ![r] = IF ans.kind = "err" THEN @ ELSE @ + 1]
       /\ events' = [events EXCEPT ![r] = Append(@, "provider")]
       /\ ExaExtracted(r, extractArticleMetadataExa(
                            [kind |-> exaExtractViaAnswer(ans), d |-> ans.d]))
  /\ UNCHANGED <<envVars, fnVars, localVars, answerDue, statusFailed, quota,
                 store, articleLink, exists, storedAtCheck, numRetries,
                 attempt, attempts, fetches, ctxDone, sleeps, insertCalls,
                 insertArg, insertErr, wrapped>>

\* A handler whose insert sits inside the retry loop.
PcAfterInsertLoop == "loop"

\* Every branch after s.db.InsertArticle returns from the handler.
PcAfterInsert == "done"

\* The handler's position after the insert, with response o.
Inserted(r, o) ==
  /\ pc' = [pc EXCEPT ![r] = PcAfterInsert]
  /\ outcome' = [outcome EXCEPT ![r] = o]

\* A handler that answers 201 whatever InsertArticle returned.
InsertResponseAlwaysCreated(err) == "created"

\* The response after InsertArticle: its error, or the created article.
InsertResponse(err) == IF err = "nil" THEN "created" ELSE "insert_error"

\* An insert whose row stays although the statement failed.
StoreAfterInsertAlways(st, link, a, err) == InsertArticle(st, link, a)

\* The table after s.db.InsertArticle returned err: a failed statement
\* leaves no row.
StoreAfterInsert(st, link, a, err) ==
  IF err = "nil" THEN InsertArticle(st, link, a) ELSE st

\* s.db.InsertArticle(article) and the response.  A nil article (articles.go
\* with an empty loop) makes the named-parameter binding fail or panic.
Insert(r) ==
  /\ r \in clients
  /\ pc[r] = "insert"
  /\ insertCalls' = [insertCalls EXCEPT ![r] = @ + 1]
  /\ insertArg' = [insertArg EXCEPT ![r] = geminiResult[r]]
  /\ events' = [events EXCEPT ![r] = Append(@, "insert")]
  /\ IF geminiResult[r].nil
       THEN /\ \E e \in {"panic", "error"} :
                 /\ insertErr' = [insertErr EXCEPT ![r] = e]
                 /\ Inserted(r, IF e = "panic" THEN "panic" ELSE InsertResponse(e))
            /\ UNCHANGED store
       ELSE \E dbErr \in BOOLEAN :
              IF dbErr \/ (UniqueLinkConstraint /\ ArticleExists(store, articleLink[r]))
                THEN /\ insertErr' = [insertErr EXCEPT ![r] = "error"]
                     /\ Inserted(r, InsertResponse("error"))
                     /\ store' = StoreAfterInsert(store, articleLink[r],
                                                  geminiResult[r], "error")
                ELSE /\ store' = StoreAfterInsert(store, articleLink[r],
                                                  geminiResult[r], "nil")
                     /\ insertErr' = [insertErr EXCEPT ![r] = "nil"]
                     /\ Inserted(r, InsertResponse("nil"))
  /\ UNCHANGED <<envVars, fnVars, localVars, exaVars, quota, articleLink, exists, storedAtCheck, numRetries,
                 attempt, attempts, fetches, geminiResult, geminiErr,
                 allMinusTwo, ctxDone, sleeps, wrapped>>

Next ==
  \E r \in Reqs :
    \/ CreateArticle(r)
    \/ FetchAndExtractLocally(r)
    \/ DeadlineElapses(r)
    \/ TimedOut(r)
    \/ AttemptLocal(r)
    \/ AttemptMarkdown(r)
    \/ AttemptExa(r)
    \/ ExaAnswer(r)
    \/ Insert(r)

Spec == Init /\ [][Next]_vars

\* Provider objects of every type, complete or with both texts empty.
LiveDetails == {d \in Details : d.title = d.summary /\ d.title # " "}

\* The builds with a retry loop, one handler at a time.
InitLive ==
  /\ variant \in {"gemini_local", "gemini_markdown"}
  /\ NUM_RETRIES \in EnvValues
  /\ pool = LiveDetails
  /\ clients = {1}
  /\ quota = MaxRequests
  /\ InitRequests
  /\ arg = NoCall
  /\ ret = NoCall

NextLive ==
  \E r \in Reqs :
    \/ CreateArticle(r)
    \/ FetchAndExtractLocally(r)
    \/ DeadlineElapses(r)
    \/ TimedOut(r)
    \/ AttemptLocal(r)
    \/ AttemptMarkdown(r)
    \/ Insert(r)

\* The handler's goroutine keeps running and every call it makes returns:
\* the fetch, each extraction (with a result or an error), the sleep
\* between attempts and the insert.  Neither the arrival of a request nor
\* the expiry of its context is required to happen.
Fairness ==
  \A r \in Reqs :
    /\ WF_vars(FetchAndExtractLocally(r))
    /\ WF_vars(TimedOut(r))
    /\ WF_vars(AttemptLocal(r))
    /\ WF_vars(AttemptMarkdown(r))
    /\ WF_vars(Insert(r))

SpecLive == InitLive /\ [][NextLive]_vars /\ Fairness

----------------------------------------------------------------------------
\* The stream of the Gemini builds (part_000:639-679, articles.go:277-285).

\* The text of one part of a streamed response.
PartTexts == {<<>>, <<"x">>, <<"y">>}

\* A streamed response: the parts of its first candidate; no part stands
\* for a response without candidate or without parts.
Chunks == UNION {[1..n -> PartTexts] : n \in 0..MaxParts}

Streams == UNION {[1..n -> Chunks] : n \in 0..MaxFragments}

\* resp.Text(): the texts of the parts, joined.
RECURSIVE RespText(_)
RespText(chunk) ==
  IF chunk = <<>> THEN <<>> ELSE Head(chunk) \o RespText(Tail(chunk))

\* part_000:657-661: the builder after one response.
WriteStringLocal(builder, chunk) ==
  IF Len(chunk) > 0 THEN [text |-> builder \o RespText(chunk), panic |-> FALSE]
                    ELSE [text |-> builder, panic |-> FALSE]

\* articles.go:284: geminiContent after one response; indexing a response
\* without candidate or part panics.
AssignMarkdown(content, chunk) ==
  IF Len(chunk) > 0 THEN [text |-> chunk[1], panic |-> FALSE]
                    ELSE [text |-> content, panic |-> TRUE]

StreamStep(build, text, chunk) ==
  IF build = "gemini_local" THEN WriteStringLocal(text, chunk)
                            ELSE AssignMarkdown(text, chunk)

InitStream ==
  /\ InitNoRequests
  /\ arg \in [fn : {"stream"}, build : {"gemini_local", "gemini_markdown"},
              chunks : Streams, fails : BOOLEAN]
  /\ ret = [fn |-> "stream", pos |-> 0, text |-> <<>>, status |-> "reading"]

\* One iteration of the range loop over a response.
StreamRecv ==
  /\ ret.fn = "stream"
  /\ ret.status = "reading"
  /\ ret.pos < Len(arg.chunks)
  /\ LET out == StreamStep(arg.build, ret.text, arg.chunks[ret.pos + 1])
     IN ret' = [ret EXCEPT !.pos = @ + 1, !.text = out.text,
                           !.status = IF out.panic THEN "panic" ELSE @]
  /\ UNCHANGED <<handlerVars, arg>>

\* The iterator yields an error after the responses: the function returns it.
StreamFails ==
  /\ ret.fn = "stream"
  /\ ret.status = "reading"
  /\ ret.pos = Len(arg.chunks)
  /\ arg.fails
  /\ ret' = [ret EXCEPT !.status = "error"]
  /\ UNCHANGED <<handlerVars, arg>>

\* The stream ends: the text goes to the regex and the decoder (part_000
\* returns an error for an empty text first).
StreamEnds ==
  /\ ret.fn = "stream"
  /\ ret.status = "reading"
  /\ ret.pos = Len(arg.chunks)
  /\ ~arg.fails
  /\ ret' = [ret EXCEPT !.status =
               IF arg.build = "gemini_local" /\ ret.text = <<>> THEN "empty"
                                                               ELSE "parser"]
  /\ UNCHANGED <<handlerVars, arg>>

NextStream == StreamRecv \/ StreamFails \/ StreamEnds

SpecStream == InitStream /\ [][NextStream]_vars

----------------------------------------------------------------------------
\* parseExtractedDetailsFromString (part_001:323-342) on token strings.

\* Text around the object: braces, a prose or fence character "p", and "K",
\* the text of a key and its colon.
Alphabet == {"{", "}", "p", "K"}

\* The content of a five-field object, as one token per sample object.
ObjectTokens == {"F1", "F2"}

\* extractedArticleDetails decoded from an object token.
Fields(f) ==
  IF f = "F1"
    THEN [title |-> "T", author |-> "A", summary |-> "S",
          datePublished |-> "2024-01-02", type |-> 1]
    ELSE [title |-> "t", author |-> "", summary |-> "s",
          datePublished |-> "", type |-> -1]

\* The zero value of extractedArticleDetails.
ZeroFields ==
  [title |-> "", author |-> "", summary |-> "", datePublished |-> "", type |-> 0]

Affixes == UNION {[1..n -> Alphabet] : n \in 0..MaxAffix}

Embed(prefix, f, suffix) == prefix \o <<"{", f, "}">> \o suffix

\* strings.Index and strings.LastIndex of a character: 0-based, -1 if absent.
Index(s, c) ==
  IF \E i \in 1..Len(s) : s[i] = c
    THEN (CHOOSE i \in 1..Len(s) : s[i] = c /\ \A j \in 1..(i - 1) : s[j] # c) - 1
    ELSE -1

LastIndex(s, c) ==
  IF \E i \in 1..Len(s) : s[i] = c
    THEN (CHOOSE i \in 1..Len(s) : s[i] = c /\ \A j \in (i + 1)..Len(s) : s[j] # c) - 1
    ELSE -1

\* extractJSONObjectFromString: s[start : end+1], or an error.
extractJSONObjectFromString(s) ==
  LET start == Index(s, "{")
      end == LastIndex(s, "}")
  IN IF start < 0 \/ end < 0 \/ end <= start
       THEN [obj |-> <<>>, err |-> TRUE]
       ELSE [obj |-> SubSeq(s, start + 1, end + 1), err |-> FALSE]

\* The text is one JSON object: empty, the five fields, or a key with an
\* object as its value.
RECURSIVE IsObject(_)
IsObject(t) ==
  /\ Len(t) >= 2
  /\ t[1] = "{"
  /\ t[Len(t)] = "}"
  /\ LET inner == SubSeq(t, 2, Len(t) - 1)
     IN \/ inner = <<>>
        \/ Len(inner) = 1 /\ inner[1] \in ObjectTokens
        \/ Len(inner) >= 3 /\ inner[1] = "K" /\ IsObject(Tail(inner))

\* json.Unmarshal into extractedArticleDetails: the five fields of the
\* object itself; an unknown key is skipped and leaves the zero value.
Unmarshal(t) ==
  IF ~IsObject(t) THEN [d |-> ZeroFields, err |-> TRUE]
  ELSE IF Len(t) = 3 /\ t[2] \in ObjectTokens THEN [d |-> Fields(t[2]), err |-> FALSE]
  ELSE [d |-> ZeroFields, err |-> FALSE]

InitParse ==
  /\ InitNoRequests
  /\ \E prefix \in Affixes, suffix \in Affixes, f \in ObjectTokens :
       arg = [fn |-> "parse", prefix |-> prefix, object |-> f, suffix |-> suffix,
              s |-> Embed(prefix, f, suffix)]
  /\ ret = [fn |-> "parse", status |-> "start", obj |-> <<>>, d |-> ZeroFields]

\* part_001:324-327
ExtractJSONObject ==
  /\ ret.fn = "parse"
  /\ ret.status = "start"
  /\ LET x == extractJSONObjectFromString(arg.s)
     IN ret' = [ret EXCEPT !.status = IF x.err THEN "no_object" ELSE "decode",
                           !.obj = x.obj]
  /\ UNCHANGED <<handlerVars, arg>>

\* part_001:328-332
UnmarshalObject ==
  /\ ret.fn = "parse"
  /\ ret.status = "decode"
  /\ LET x == Unmarshal(ret.obj)
     IN ret' = [ret EXCEPT !.status = IF x.err THEN "bad_object" ELSE "returned",
                           !.d = x.d]
  /\ UNCHANGED <<handlerVars, arg>>

NextParse == ExtractJSONObject \/ UnmarshalObject

SpecParse == InitParse /\ [][NextParse]_vars

----------------------------------------------------------------------------
\* The date hint of fetchAndExtractLocally (part_000:239-337, 720-768).

\* A date string of the page: absent or empty, text no layout parses, an
\* RFC3339 time in UTC, an RFC3339 time whose offset puts it on another UTC
\* day, a date in a textual layout ("January 2, 2006").
PageDates == {"", "bad", "rfc_utc", "rfc_offset", "textual"}

\* time.Parse(time.RFC3339, d) succeeds.
IsRFC3339(d) == d \in {"rfc_utc", "rfc_offset"}

\* t.Format("2006-01-02"): the day in the time's own offset.
FormatLocal(d) == IF d = "textual" THEN "2023-05-05" ELSE "2024-01-01"

\* t.UTC().Format("2006-01-02")
FormatUTC(d) ==
  IF d = "textual" THEN "2023-05-05"
  ELSE IF d = "rfc_offset" THEN "2024-01-02"
  ELSE "2024-01-01"

\* parseAndFormatDateToUTC: the UTC day and true, or the trimmed input and
\* false.
parseAndFormatDateToUTC(d) ==
  IF d = "" THEN [date |-> "", ok |-> FALSE]
  ELSE IF d \in {"rfc_utc", "rfc_offset", "textual"}
    THEN [date |-> FormatUTC(d), ok |-> TRUE]
  ELSE [date |-> d, ok |-> FALSE]

\* "@type" of a JSON-LD block: an article type as a string, an array that
\* holds one, anything else.
LdTypes == {"string", "array", "other"}

\* A first pass that takes no block for an article.
IsArticleFirstPassNever(t) == FALSE

\* The first JSON-LD pass takes a string or an array (part_000:197-207).
IsArticleFirstPass(t) == t \in {"string", "array"}

\* The second pass takes a string only (part_000:312-314).
IsArticleSecondPass(t) == t = "string"

LdDateBlocks == [type : LdTypes, datePublished : PageDates]

LdDateLists == UNION {[1..n -> LdDateBlocks] : n \in 0..MaxBlocks}

\* potentialDateStrings: what the meta tags and the time element give, in
\* order; the visible text is always appended, possibly empty.
Candidates == UNION {[1..n -> PageDates] : n \in 1..MaxCandidates}

\* part_000:240-255 for one block.
DateFirstPass(h, b) ==
  IF IsArticleFirstPass(b.type) /\ ~h.DateFound /\ b.datePublished # ""
       /\ IsRFC3339(b.datePublished)
    THEN [DateFound |-> TRUE, DatePublished |-> FormatLocal(b.datePublished)]
    ELSE h

\* part_000:322-334 for one block.
DateSecondPass(h, b) ==
  IF IsArticleSecondPass(b.type) /\ b.datePublished # ""
       /\ parseAndFormatDateToUTC(b.datePublished).ok
    THEN [DateFound |-> TRUE,
          DatePublished |-> parseAndFormatDateToUTC(b.datePublished).date]
    ELSE h

\* doc.Find(...).Each over the blocks, in document order.
RECURSIVE EachFirstPass(_, _)
EachFirstPass(h, blocks) ==
  IF blocks = <<>> THEN h
  ELSE EachFirstPass(DateFirstPass(h, Head(blocks)), Tail(blocks))

RECURSIVE EachSecondPass(_, _)
EachSecondPass(h, blocks) ==
  IF blocks = <<>> THEN h
  ELSE EachSecondPass(DateSecondPass(h, Head(blocks)), Tail(blocks))

\* part_000:289-300: the first candidate that parses is taken.
RECURSIVE DateFromCandidates(_, _)
DateFromCandidates(h, cands) ==
  IF cands = <<>> THEN h
  ELSE IF parseAndFormatDateToUTC(Head(cands)).ok
    THEN [DateFound |-> TRUE,
          DatePublished |-> parseAndFormatDateToUTC(Head(cands)).date]
  ELSE DateFromCandidates(h, Tail(cands))

InitDates ==
  /\ InitNoRequests
  /\ arg \in [fn : {"dates"}, blocks : LdDateLists, candidates : Candidates]
  /\ ret = [fn |-> "dates", status |-> "parsed",
            h |-> [DateFound |-> FALSE, DatePublished |-> ""]]

\* The first JSON-LD pass.
LdFirstPass ==
  /\ ret.fn = "dates"
  /\ ret.status = "parsed"
  /\ ret' = [ret EXCEPT !.status = "ld1", !.h = EachFirstPass(@, arg.blocks)]
  /\ UNCHANGED <<handlerVars, arg>>

\* The loop over potentialDateStrings.
CandidatesPass ==
  /\ ret.fn = "dates"
  /\ ret.status = "ld1"
  /\ ret' = [ret EXCEPT !.status = "candidates",
                        !.h = DateFromCandidates(@, arg.candidates)]
  /\ UNCHANGED <<handlerVars, arg>>

\* The second JSON-LD pass.
LdSecondPass ==
  /\ ret.fn = "dates"
  /\ ret.status = "candidates"
  /\ ret' = [ret EXCEPT !.status = "done", !.h = EachSecondPass(@, arg.blocks)]
  /\ UNCHANGED <<handlerVars, arg>>

NextDates == LdFirstPass \/ CandidatesPass \/ LdSecondPass

SpecDates == InitDates /\ [][NextDates]_vars

----------------------------------------------------------------------------
\* The author hint of fetchAndExtractLocally (part_000:97-238).

\* The methods of the cascade, in order: the meta tags (author,
\* article:author, dc.creator), itemprop microdata, byline containers, the
\* generic .author class.  Each runs only while no author was found.
Methods == 1..4

\* What a method finds on a page it matches: trimmed names, no duplicate.
MethodAuthors(m) ==
  CASE m = 1 -> <<"meta">>
    [] m = 2 -> <<"item1", "item2">>
    [] m = 3 -> <<"byline">>
    [] OTHER -> <<"class">>

\* The "name" values of the author objects of a JSON-LD block: one object or
\* an array of them; a name can be empty.
LdNames == {"", "A", "B"}

LdAuthors == UNION {[1..n -> LdNames] : n \in 0..MaxAuthors}

LdAuthorBlocks == [type : LdTypes, authors : LdAuthors]

LdAuthorLists == UNION {[1..n -> LdAuthorBlocks] : n \in 0..MaxAuthorBlocks}

\* contains(slice, item)
Contains(slice, item) == \E i \in 1..Len(slice) : slice[i] = item

\* part_000:212-229: the non-empty names, each once, in order.
RECURSIVE JsonAuthors(_, _)
JsonAuthors(acc, names) ==
  IF names = <<>> THEN acc
  ELSE IF Head(names) # "" /\ ~Contains(acc, Head(names))
    THEN JsonAuthors(Append(acc, Head(names)), Tail(names))
  ELSE JsonAuthors(acc, Tail(names))

\* part_000:101-176: the methods in order, each guarded by len(authors) == 0.
RECURSIVE AuthorsFromCascade(_, _, _)
AuthorsFromCascade(authors, m, matched) ==
  IF m > 4 THEN authors
  ELSE AuthorsFromCascade(
         IF Len(authors) = 0 /\ m \in matched THEN MethodAuthors(m) ELSE authors,
         m + 1, matched)

\* part_000:179-186: strings.Join(authors, ", "), kept as the list of names.
CombineAuthors(authors) ==
  IF Len(authors) > 0 THEN [AuthorFound |-> TRUE, Author |-> authors]
                      ELSE [AuthorFound |-> FALSE, Author |-> <<>>]

\* part_000:208-237 for one block.
AuthorFromBlock(h, b) ==
  LET jsonAuthors == JsonAuthors(<<>>, b.authors)
  IN IF IsArticleFirstPass(b.type) /\ Len(jsonAuthors) > 0
          /\ (~h.AuthorFound \/ h.Author # jsonAuthors)
       THEN [AuthorFound |-> TRUE, Author |-> jsonAuthors]
       ELSE h

RECURSIVE EachAuthorBlock(_, _)
EachAuthorBlock(h, blocks) ==
  IF blocks = <<>> THEN h
  ELSE EachAuthorBlock(AuthorFromBlock(h, Head(blocks)), Tail(blocks))

InitAuthors ==
  /\ InitNoRequests
  /\ arg \in [fn : {"authors"}, matched : SUBSET Methods, blocks : LdAuthorLists]
  /\ ret = [fn |-> "authors", status |-> "parsed",
            h |-> [AuthorFound |-> FALSE, Author |-> <<>>]]

\* The cascade and the combination of its names.
AuthorCascade ==
  /\ ret.fn = "authors"
  /\ ret.status = "parsed"
  /\ ret' = [ret EXCEPT !.status = "cascade",
                        !.h = CombineAuthors(AuthorsFromCascade(<<>>, 1, arg.matched))]
  /\ UNCHANGED <<handlerVars, arg>>

\* The JSON-LD pass over the blocks.
AuthorLdPass ==
  /\ ret.fn = "authors"
  /\ ret.status = "cascade"
  /\ ret' = [ret EXCEPT !.status = "done", !.h = EachAuthorBlock(@, arg.blocks)]
  /\ UNCHANGED <<handlerVars, arg>>

NextAuthors == AuthorCascade \/ AuthorLdPass

SpecAuthors == InitAuthors /\ [][NextAuthors]_vars

----------------------------------------------------------------------------
\* The paginated listing (part_001:36-96, article_query.go:10-51).

pageSize == 10

MaxInt == 2^(IntBits - 1) - 1

MinInt == -(2^(IntBits - 1))

\* Go's int arithmetic: the result modulo 2^IntBits, as a signed value.
WrapInt(x) == ((x - MinInt) % (2^IntBits)) + MinInt

\* The page query parameter: empty (or absent), not a number, or a
\* decimal number, which may lie outside the range of int.
PageStrs ==
  {[kind |-> "empty", n |-> 0], [kind |-> "text", n |-> 0]}
    \cup {[kind |-> "int", n |-> n] : n \in (MinInt - 1)..(MaxInt + 1)}

\* strconv.Atoi(pageStr) for a non-empty pageStr.
AtoiPage(s) ==
  IF s.kind = "int" /\ s.n >= MinInt /\ s.n <= MaxInt
    THEN [val |-> s.n, err |-> FALSE]
    ELSE [val |-> 0, err |-> TRUE]

\* Paginate: the page put into the request context, or the rejection.
Paginate(s) ==
  IF s.kind = "empty" THEN [ok |-> TRUE, page |-> 1]
  ELSE IF AtoiPage(s).err \/ AtoiPage(s).val < 1
         THEN [ok |-> FALSE, page |-> 0]
         ELSE [ok |-> TRUE, page |-> AtoiPage(s).val]

\* How date_read varies over the rows of a table, in insertion order.
DatePatterns == {"same", "rising", "pairs", "alternating"}

DateOf(p, i) ==
  CASE p = "same" -> 1
    [] p = "rising" -> i
    [] p = "pairs" -> i \div 2
    [] OTHER -> i % 2

\* The articles table: rows in insertion order, ids assigned by the table.
Tables ==
  {[i \in 1..n |-> [id |-> i, date_read |-> DateOf(p, i)]] :
     n \in 0..MaxRows, p \in DatePatterns}

\* order by date_read desc, id asc
RowBefore(a, b) ==
  \/ a.date_read > b.date_read
  \/ a.date_read = b.date_read /\ a.id < b.id

RECURSIVE OrderRows(_)
OrderRows(rows) ==
  IF rows = {} THEN <<>>
  ELSE LET first == CHOOSE a \in rows : \A b \in rows \ {a} : RowBefore(a, b)
       IN <<first>> \o OrderRows(rows \ {first})

RowsOf(table) == {table[i] : i \in 1..Len(table)}

\* select * from articles order by date_read desc, id asc
GetAllArticles(table) == OrderRows(RowsOf(table))

\* ... limit ? offset ?  (a negative offset selects from the first row)
GetArticlePage(table, offset, limit) ==
  LET all == GetAllArticles(table)
      from == IF offset < 0 THEN 0 ELSE offset
      to == IF from + limit < Len(all) THEN from + limit ELSE Len(all)
  IN SubSeq(all, from + 1, to)

\* select count(*) from articles
GetArticleCount(table) == Len(table)

\* An offset that counts pages from 0.
OffsetOfFromZero(page) == WrapInt(page * pageSize)

\* offset := (page - 1) * pageSize
OffsetOf(page) == WrapInt(WrapInt(page - 1) * pageSize)

\* A test that lets a negative offset through.
EmptyPageNoNegative(offset, total) == offset >= total \/ total = 0

\* if offset < 0 || offset >= total || total == 0
EmptyPage(offset, total) == offset < 0 \/ offset >= total \/ total = 0

\* GetArticlesPageHandler for the page of the request context: the
\* response and the storage calls made.
GetArticlesPage(table, page, countErr, pageErr) ==
  LET total == GetArticleCount(table)
      offset == OffsetOf(page)
      count == [call |-> "count", offset |-> 0, limit |-> 0]
      query == [call |-> "page", offset |-> offset, limit |-> pageSize]
  IN IF countErr
       THEN [status |-> "internal_error", total |-> 0, articles |-> <<>>,
             calls |-> <<count>>]
     ELSE IF EmptyPage(offset, total)
       THEN [status |-> "ok", total |-> total, articles |-> <<>>,
             calls |-> <<count>>]
     ELSE IF pageErr
       THEN [status |-> "internal_error", total |-> 0, articles |-> <<>>,
             calls |-> <<count, query>>]
     ELSE [status |-> "ok", total |-> total,
           articles |-> GetArticlePage(table, offset, pageSize),
           calls |-> <<count, query>>]

\* One request GET /?page=..., with or without failing queries.
InitPage ==
  /\ InitNoRequests
  /\ arg \in [fn : {"page"}, table : Tables, pageStr : PageStrs,
               countErr : BOOLEAN, pageErr : BOOLEAN]
  /\ ret = [fn |-> "page", status |-> "received", page |-> 0, total |-> 0,
            articles |-> <<>>, calls |-> <<>>]

\* The middleware: reject, or pass the page on.
PaginateRequest ==
  /\ ret.fn = "page"
  /\ ret.status = "received"
  /\ ret' = IF Paginate(arg.pageStr).ok
              THEN [ret EXCEPT !.status = "paged",
                               !.page = Paginate(arg.pageStr).page]
              ELSE [ret EXCEPT !.status = "invalid_request"]
  /\ UNCHANGED <<handlerVars, arg>>

GetArticlesPageHandler ==
  /\ ret.fn = "page"
  /\ ret.status = "paged"
  /\ LET resp == GetArticlesPage(arg.table, ret.page, arg.countErr, arg.pageErr)
     IN ret' = [ret EXCEPT !.status = resp.status, !.total = resp.total,
                           !.articles = resp.articles, !.calls = resp.calls]
  /\ UNCHANGED <<handlerVars, arg>>

NextPage == PaginateRequest \/ GetArticlesPageHandler

SpecPage == InitPage /\ [][NextPage]_vars

\* A client that reads the whole listing and then every page in turn from
\* a table that does not change, all queries succeeding.
InitListing ==
  /\ InitNoRequests
  /\ arg \in [fn : {"listing"}, table : Tables]
  /\ ret = [fn |-> "listing", listed |-> FALSE, all |-> <<>>, page |-> 1,
            articles |-> <<>>, sizes |-> <<>>, total |-> 0]

\* GET /all: GetAllArticlesHandler.
GetAllArticlesHandler ==
  /\ ret.fn = "listing"
  /\ ~ret.listed
  /\ ret' = [ret EXCEPT !.listed = TRUE, !.all = GetAllArticles(arg.table)]
  /\ UNCHANGED <<handlerVars, arg>>

\* GET /?page=p for the next page p, until a page comes back empty or the
\* pages announced by the total are read.
GetNextPage ==
  /\ ret.fn = "listing"
  /\ ret.listed
  /\ ret.page * pageSize < ret.total + pageSize \/ ret.page = 1
  /\ LET p == Paginate([kind |-> "int", n |-> ret.page])
         resp == GetArticlesPage(arg.table, p.page, FALSE, FALSE)
     IN /\ p.ok
        /\ ret' = [ret EXCEPT !.page = @ + 1,
                              !.articles = @ \o resp.articles,
                              !.sizes = Append(@, Len(resp.articles)),
                              !.total = resp.total]
  /\ UNCHANGED <<handlerVars, arg>>

NextListing == GetAllArticlesHandler \/ GetNextPage

SpecListing == InitListing /\ [][NextListing]_vars

----------------------------------------------------------------------------
\* The body text in the prompt (part_000:590-602).

maxBodyLen == 8000

\* Bytes per character of a body text (UTF-8, one width per text).
Widths == 1..3

\* A body text by its number of characters and their width; the lengths
\* lie around the points where len(BodyText) crosses maxBodyLen.
BodyChars ==
  0..MaxSlack
    \cup UNION {((maxBodyLen \div w) - MaxSlack)..((maxBodyLen \div w) + MaxSlack) :
                 w \in Widths}

BodyTexts == [chars : BodyChars, width : Widths]

\* len(localContent.BodyText), in bytes.
BodyLen(body) == body.chars * body.width

\* A cap that also cuts a text of exactly maxBodyLen bytes.
TruncatesFromCap(n) == n >= maxBodyLen

\* part_000:593
Truncates(n) == n > maxBodyLen

\* part_000:593-598: the bytes of the body written to the prompt and
\* whether the marker follows them.
EmbeddedBody(body) ==
  IF Truncates(BodyLen(body))
    THEN [bytes |-> maxBodyLen, marker |-> TRUE]
    ELSE [bytes |-> BodyLen(body), marker |-> FALSE]

InitPrompt ==
  /\ InitNoRequests
  /\ arg \in [fn : {"prompt"}, body : BodyTexts]
  /\ ret = [fn |-> "prompt", status |-> "building", bytes |-> 0,
            marker |-> FALSE]

\* BodyText != "": the body, capped, goes into the prompt.
EmbedBody ==
  /\ ret.fn = "prompt"
  /\ ret.status = "building"
  /\ BodyLen(arg.body) # 0
  /\ ret' = [ret EXCEPT !.status = "embedded",
                        !.bytes = EmbeddedBody(arg.body).bytes,
                        !.marker = EmbeddedBody(arg.body).marker]
  /\ UNCHANGED <<handlerVars, arg>>

\* BodyText == "": the prompt carries the warning instead.
WarnNoBody ==
  /\ ret.fn = "prompt"
  /\ ret.status = "building"
  /\ BodyLen(arg.body) = 0
  /\ ret' = [ret EXCEPT !.status = "warned"]
  /\ UNCHANGED <<handlerVars, arg>>

NextPrompt == EmbedBody \/ WarnNoBody

SpecPrompt == InitPrompt /\ [][NextPrompt]_vars

----------------------------------------------------------------------------
\* datePublished from the provider's answer to the stored row.

\* A date string as tokens: a year, a month, a day, a space, other text.
DateTokens == {"YYYY", "-MM", "-DD", " ", "x"}

DateStrings == UNION {[1..n -> DateTokens] : n \in 0..MaxDateLen}

\* strings.TrimSpace on a token string.
RECURSIVE TrimLeft(_)
TrimLeft(s) ==
  IF s # <<>> /\ Head(s) = " " THEN TrimLeft(Tail(s)) ELSE s

RECURSIVE TrimRight(_)
TrimRight(s) ==
  IF s # <<>> /\ s[Len(s)] = " " THEN TrimRight(SubSeq(s, 1, Len(s) - 1)) ELSE s

TrimSpaces(s) == TrimRight(TrimLeft(s))

\* Article.DatePublished as each build sets it from the decoded answer.
ArticleDatePublished(build, date) ==
  IF build = "exa" THEN TrimSpaces(date) ELSE date

InitArticle ==
  /\ InitNoRequests
  /\ arg \in [fn : {"article"}, build : Variants, datePublished : DateStrings]
  /\ ret = [fn |-> "article", status |-> "decoded", date |-> <<>>]

\* The article is built from the decoded answer.
BuildArticle ==
  /\ ret.fn = "article"
  /\ ret.status = "decoded"
  /\ ret' = [ret EXCEPT !.status = "built",
                        !.date = ArticleDatePublished(arg.build, arg.datePublished)]
  /\ UNCHANGED <<handlerVars, arg>>

\* InsertArticle writes :date_published as it is.
StoreArticle ==
  /\ ret.fn = "article"
  /\ ret.status = "built"
  /\ ret' = [ret EXCEPT !.status = "stored"]
  /\ UNCHANGED <<handlerVars, arg>>

NextArticle == BuildArticle \/ StoreArticle

SpecArticle == InitArticle /\ [][NextArticle]_vars

----------------------------------------------------------------------------
\* ChatCompletion (internal/llm/openrouter.go:116-179).

\* time.Second, in nanoseconds.
Second == 1000000000

\* resp.StatusCode: values on both sides of the 2xx test.
StatusCodes == {199, 200, 204, 299, 300, 429, 500, 503}

\* resp.Header.Get("Retry-After"): absent, an HTTP date, or an integer.
RetryAfterHeaders ==
  {[kind |-> "unset", n |-> 0], [kind |-> "text", n |-> 0]}
    \cup {[kind |-> "int", n |-> i] : i \in -1..MaxRetryAfter}

\* The response body: not JSON, JSON with an error message, JSON with no
\* choice, JSON with a choice.
BodyKinds == {"not_json", "error_json", "no_choices", "choices"}

\* A non-2xx branch that drops the header.
RetryAfterIgnored(header) == 0

\* openrouter.go:153-158: the duration of an integer Retry-After, else zero.
RetryAfterOf(header) ==
  IF header.kind # "unset" /\ ~Atoi(header).err
    THEN Atoi(header).val * Second
    ELSE 0

\* openrouter.go:148
Non2xx(code) == code < 200 \/ code >= 300

\* The values ChatCompletion returns for a response that was read.
ChatResult(resp) ==
  IF Non2xx(resp.status)
    THEN [text |-> "", err |-> "openrouter", StatusCode |-> resp.status,
          RetryAfter |-> RetryAfterOf(resp.retryAfter),
          Message |-> resp.body = "error_json"]
  ELSE IF resp.body = "not_json"
    THEN [text |-> "", err |-> "unmarshal", StatusCode |-> 0, RetryAfter |-> 0,
          Message |-> FALSE]
  ELSE IF resp.body = "error_json"
    THEN [text |-> "", err |-> "openrouter", StatusCode |-> resp.status,
          RetryAfter |-> 0, Message |-> TRUE]
  ELSE IF resp.body = "no_choices"
    THEN [text |-> "", err |-> "empty_choices", StatusCode |-> 0, RetryAfter |-> 0,
          Message |-> FALSE]
  ELSE [text |-> "content", err |-> "nil", StatusCode |-> 0, RetryAfter |-> 0,
        Message |-> FALSE]

\* An error that is no *OpenRouterError.
PlainError(e) ==
  [text |-> "", err |-> e, StatusCode |-> 0, RetryAfter |-> 0, Message |-> FALSE]

InitChat ==
  /\ InitNoRequests
  /\ arg \in [fn : {"chat"}, doErr : BOOLEAN, readErr : BOOLEAN,
              status : StatusCodes, retryAfter : RetryAfterHeaders,
              body : BodyKinds]
  /\ ret = [fn |-> "chat", status |-> "start", requests |-> 0,
            out |-> PlainError("nil")]

\* openrouter.go:117-141: the request is built and sent once.
ChatDo ==
  /\ ret.fn = "chat"
  /\ ret.status = "start"
  /\ ret' = [ret EXCEPT !.requests = @ + 1,
                        !.status = IF arg.doErr THEN "returned" ELSE "sent",
                        !.out = IF arg.doErr THEN PlainError("request") ELSE @]
  /\ UNCHANGED <<handlerVars, arg>>

\* openrouter.go:143-178: the body is read and the result built.
ChatRead ==
  /\ ret.fn = "chat"
  /\ ret.status = "sent"
  /\ ret' = [ret EXCEPT !.status = "returned",
                        !.out = IF arg.readErr THEN PlainError("read")
                                               ELSE ChatResult(arg)]
  /\ UNCHANGED <<handlerVars, arg>>

NextChat == ChatDo \/ ChatRead

SpecChat == InitChat /\ [][NextChat]_vars

SpecConc == InitConc /\ [][Next]_vars

----------------------------------------------------------------------------
\* Properties.

\* C1: after any interleaving of CreateArticle requests the table holds at
\* most one row per link, also when two requests for the same new link both
\* run ArticleExists before either runs InsertArticle.
C1_AtMostOneArticlePerLink ==
  \A i, j \in 1..Len(store) : store[i].link = store[j].link => i = j

\* C2: a request for a link that is already in the table ends at the
\* existence check: no page fetch, no extraction, no InsertArticle, and the
\* response is "already exists" whenever the query itself answered.
C2_DuplicateRejectedAtCheck ==
  \A r \in clients :
    storedAtCheck[r] =>
      /\ pc[r] = "done"
      /\ fetches[r] = 0
      /\ attempts[r] = 0
      /\ insertCalls[r] = 0
      /\ outcome[r] = IF exists[r] THEN "already_exists" ELSE "db_error"

C2_Witness ==
  \E r \in clients :
    /\ storedAtCheck[r]
    /\ exists[r]
    /\ outcome[r] = "already_exists"
    /\ articleLink[r] \in StoredLinks

\* C3: every record handed to InsertArticle has type 0, 1 or 2, whatever
\* the provider returns and whatever the attempt budget.
C3_PersistedTypeInRange ==
  \A r \in clients :
    insertCalls[r] > 0 /\ ~insertArg[r].nil => insertArg[r].type \in {0, 1, 2}

\* C4: an extraction that returns a parsed result of type -1 ends the
\* request as rejected at that attempt: the handler is finished, so no
\* further extraction follows, and InsertArticle is not called.
C4_MinusOneRejects ==
  \A r \in clients :
    geminiErr[r] = "nil" /\ ~geminiResult[r].nil /\ geminiResult[r].type = -1 =>
      /\ pc[r] = "done"
      /\ outcome[r] = "rejected"
      /\ insertCalls[r] = 0

C4_Witness ==
  \E r \in clients :
    /\ ~geminiResult[r].nil
    /\ geminiResult[r].type = -1
    /\ outcome[r] = "rejected"
    /\ attempts[r] >= 1
    /\ attempts[r] < numRetries[r]

\* C5: when every extraction of a request returned a parsed type -2, the
\* request ends exhausted after exactly numRetries extractions, nothing is
\* inserted, and the sleeps between extractions are 1s, 2s, ...,
\* (numRetries-1)s with none after the last.
C5_MinusTwoExhaustsAfterN ==
  \A r \in clients :
    pc[r] = "done" /\ attempts[r] >= 1 /\ allMinusTwo[r] =>
      /\ outcome[r] \in {"exhausted", "timeout"}
      /\ attempts[r] = numRetries[r]
      /\ insertCalls[r] = 0
      /\ sleeps[r] = [i \in 1..(numRetries[r] - 1) |-> i]

\* Errors of one extraction that come from the adapter's stream or from
\* parsing its output (not from client construction).
AttemptErrors == {"stream", "context", "empty", "regex", "unmarshal"}

\* C6: an extraction that ends in an adapter or parse error fails only that
\* attempt: the request does not end on it while attempts remain and the
\* deadline has not elapsed.
C6_ErrorFailsOnlyAttempt ==
  \A r \in clients :
    pc[r] = "done" /\ attempts[r] >= 1 /\ geminiErr[r] \in AttemptErrors =>
      attempts[r] >= numRetries[r] \/ ctxDone[r]

\* C7: once the request deadline has elapsed, the retry loop starts no
\* further extraction: its next step ends the request with the timeout
\* error, nothing is inserted, whatever attempt budget remains.
C7_NoAttemptAfterDeadline ==
  [][\A r \in clients :
       variant = "gemini_local" /\ pc[r] = "loop" /\ ctxDone[r] =>
         /\ attempts'[r] = attempts[r]
         /\ insertCalls'[r] = 0
         /\ store' = store
         /\ pc'[r] \in {"loop", "done"}
         /\ pc'[r] = "done" => outcome'[r] = "timeout"]_vars

C7_Witness ==
  \E r \in clients :
    /\ outcome[r] = "timeout"
    /\ ctxDone[r]
    /\ attempts[r] >= 1
    /\ attempts[r] < numRetries[r]
    /\ insertCalls[r] = 0

\* C8: for every value of NUM_RETRIES a request for a new link makes at
\* least one extraction before it reaches InsertArticle or an
\* extraction-failure response.
C8_AtLeastOneAttempt ==
  \A r \in clients :
    insertCalls[r] > 0 \/ outcome[r] \in {"exhausted", "extraction_error", "incomplete"} =>
      attempts[r] >= 1

\* C9: the "failed after N attempts" response wraps the concrete error of
\* the final attempt, however that attempt failed.
C9_ExhaustedWrapsLastError ==
  \A r \in clients :
    variant = "gemini_local" /\ outcome[r] = "exhausted" =>
      wrapped[r] \notin {"nil", "none"}

\* C10: no record with an empty title or an empty summary is handed to
\* InsertArticle.
C10_NoEmptyRequiredField ==
  \A r \in clients :
    insertCalls[r] > 0 /\ ~insertArg[r].nil =>
      insertArg[r].title # "" /\ insertArg[r].summary # ""

\* C11: an extraction that decodes but leaves the title or the summary
\* empty is retried: the request does not end as incomplete while attempts
\* remain and the deadline has not elapsed.
C11_IncompleteIsRetried ==
  \A r \in clients :
    pc[r] = "done" /\ outcome[r] = "incomplete" =>
      attempts[r] >= numRetries[r] \/ ctxDone[r]

\* C12: a failure to construct the provider client (missing or invalid API
\* key) ends the request after that attempt: no further attempt is made,
\* whatever budget remains.
C12_ClientFailureFailsFast ==
  \A r \in clients :
    attempts[r] >= 1 /\ geminiErr[r] = "client" => pc[r] = "done"

\* C14: in the Exa extraction the Answer endpoint is called exactly when the
\* Contents call succeeded, no status of the submitted link reads error, a
\* result came back and its summary did not parse; it is called at most once
\* per request, and when it fails the extraction ends with an error and
\* nothing is inserted.
C14_AnswerOnlyAsFallback ==
  \A r \in clients :
    variant = "exa" =>
      /\ answerCalls[r] <= 1
      /\ answerCalls[r] = 1 => answerDue[r]
      /\ pc[r] = "answer" => answerDue[r] /\ answerCalls[r] = 0
      /\ pc[r] \in {"insert", "done"} /\ attempts[r] >= 1 =>
           answerCalls[r] = (IF answerDue[r] THEN 1 ELSE 0)
      /\ answerCalls[r] = 1 /\ geminiErr[r] = "answer" =>
           pc[r] = "done" /\ outcome[r] = "extraction_error" /\ insertCalls[r] = 0

C14_Witness ==
  \E r \in clients :
    /\ variant = "exa"
    /\ answerCalls[r] = 1
    /\ geminiErr[r] = "answer"
    /\ outcome[r] = "extraction_error"

\* C15: in the Exa extraction a summary that decodes but lacks a title or a
\* summary is followed by the Answer call before the failure is reported.
C15_IncompleteFallsBack ==
  \A r \in clients :
    variant = "exa" /\ pc[r] = "done" /\ outcome[r] = "incomplete" =>
      answerCalls[r] >= 1

\* C16: a Contents response that carries an error status for the submitted
\* link fails the extraction: an error is returned, no summary is parsed, the
\* Answer endpoint is not called and nothing is inserted.
C16_StatusErrorFailsExtraction ==
  \A r \in clients :
    variant = "exa" /\ statusFailed[r] =>
      /\ pc[r] = "done"
      /\ geminiErr[r] = "status"
      /\ outcome[r] = "extraction_error"
      /\ parses[r] = 0
      /\ answerCalls[r] = 0
      /\ insertCalls[r] = 0

C16_Witness ==
  \E r \in clients :
    /\ variant = "exa"
    /\ statusFailed[r]
    /\ pc[r] = "done"
    /\ outcome[r] = "extraction_error"

\* C17: in the build with local extraction a page fetch that ends with a
\* status other than 200 or with a network or timeout error leaves hints
\* that are not nil and all not-found; the retry loop still runs, at least
\* one extraction is attempted unless the request's context has ended, and
\* when the handler ends after attempts that all failed the response is the
\* exhausted one (or the timeout one, if the context ended meanwhile).
C17_FailedFetchNotFatal ==
  \A r \in clients :
    variant = "gemini_local" /\ fetchFailed[r] =>
      /\ ~localContent[r].nil
      /\ ~localContent[r].TitleFound
      /\ ~localContent[r].AuthorFound
      /\ ~localContent[r].DateFound
      /\ ~localContent[r].BodyFound
      /\ pc[r] \in {"loop", "insert", "done"}
      /\ pc[r] = "done" => attempts[r] >= 1 \/ ctxDone[r]
      /\ pc[r] = "done" /\ attempts[r] >= 1
           /\ (geminiErr[r] # "nil" \/ geminiResult[r].type = -2) =>
             outcome[r] \in (IF ctxDone[r] THEN {"exhausted", "timeout"}
                                           ELSE {"exhausted"})

C17_Witness ==
  \E r \in clients :
    /\ variant = "gemini_local"
    /\ fetchFailed[r]
    /\ ~ctxDone[r]
    /\ attempts[r] >= 2
    /\ outcome[r] = "exhausted"

\* C19: within one request that binds, ArticleExists is called exactly once
\* and before every page fetch and provider call, InsertArticle is called at
\* most once and after the last provider call, and no storage call lies
\* between two fetch or provider calls.  A request rejected at Bind makes no
\* call at all.
C19_StorageOnlyBeforeAndAfter ==
  \A r \in clients :
    LET ev == events[r]
    IN /\ \A i \in 1..Len(ev) : ev[i] = "exists" <=> i = 1
       /\ \A i \in 1..Len(ev) : ev[i] = "insert" => i = Len(ev)
       /\ pc[r] # "idle" /\ outcome[r] # "invalid_request" => Len(ev) >= 1
       /\ outcome[r] = "invalid_request" => ev = <<>>
       /\ Len(SelectSeq(ev, LAMBDA e : e = "insert")) = insertCalls[r]
       /\ insertCalls[r] <= 1

C19_Witness ==
  \E r \in clients :
    /\ Len(events[r]) >= 5
    /\ events[r][1] = "exists"
    /\ events[r][2] = "fetch"
    /\ events[r][Len(events[r])] = "insert"
    /\ outcome[r] = "created"

\* C18: the text the Gemini builds hand to the regex and the decoder is the
\* concatenation, in order of arrival, of the texts of all responses of the
\* stream.
RECURSIVE AllFragments(_)
AllFragments(chunks) ==
  IF chunks = <<>> THEN <<>>
  ELSE RespText(Head(chunks)) \o AllFragments(Tail(chunks))

C18_ParserGetsConcatenation ==
  ret.fn = "stream" /\ ret.status = "parser" => ret.text = AllFragments(arg.chunks)

\* C13: for a five-field object embedded between any prefix and suffix over
\* the alphabet, parseExtractedDetailsFromString returns without error the
\* five fields of that object.
C13_EmbeddedObjectRecovered ==
  ret.fn = "parse" /\ ret.status \notin {"start", "decode"} =>
    ret.status = "returned" /\ ret.d = Fields(arg.object)

\* C20: ChatCompletion sends one HTTP request and never more; for a response
\* read with a status outside 2xx and an integer Retry-After of s seconds it
\* returns an OpenRouterError that carries the status code and RetryAfter = s
\* seconds, with no text.
C20_RetryAfterSurfacedNotWaited ==
  ret.fn = "chat" =>
    /\ ret.requests <= 1
    /\ ret.status = "returned" => ret.requests = 1
    /\ ret.status = "returned" /\ ~arg.doErr /\ ~arg.readErr
         /\ (arg.status < 200 \/ arg.status > 299)
         /\ arg.retryAfter.kind = "int" =>
           /\ ret.out.err = "openrouter"
           /\ ret.out.text = ""
           /\ ret.out.StatusCode = arg.status
           /\ ret.out.RetryAfter = arg.retryAfter.n * 1000000000

C20_Witness ==
  /\ ret.fn = "chat"
  /\ ret.status = "returned"
  /\ arg.status = 429
  /\ arg.retryAfter = [kind |-> "int", n |-> 1]
  /\ ret.out.err = "openrouter"
  /\ ret.out.RetryAfter = 1000000000
  /\ ret.requests = 1

\* C21: a request whose articleLink is not a well-formed absolute URL is
\* answered as an invalid request before any storage access, page fetch or
\* provider call.
AbsoluteURLs == {"http://a"}

C21_MalformedLinkRejected ==
  \A r \in clients :
    pc[r] # "idle" /\ articleLink[r] \notin AbsoluteURLs =>
      /\ events[r] = <<>>
      /\ pc[r] = "done"
      /\ outcome[r] = "invalid_request"

\* C22: the datePublished of a stored record is YYYY-MM-DD, YYYY-MM, YYYY or
\* empty, whatever date string the provider returned.
DateShapes == {<<>>, <<"YYYY">>, <<"YYYY", "-MM">>, <<"YYYY", "-MM", "-DD">>}

C22_StoredDateShape ==
  ret.fn = "article" /\ ret.status = "stored" => ret.date \in DateShapes

\* C23, as stated: every request of the builds part_000 and part_001 ends
\* with the created record, "already exists", "not supported content" or a
\* failed extraction.
C23_FourOutcomes ==
  \A r \in clients :
    variant \in {"gemini_local", "exa"} /\ pc[r] = "done" =>
      outcome[r] \in {"created", "already_exists", "rejected", "exhausted",
                      "extraction_error", "incomplete", "timeout"}

\* C23, amended: every request of the builds part_000 and part_001 ends with
\* exactly one response, which is one of the four above, "invalid request"
\* for a body that does not bind, or an internal error for a failed storage
\* call; the response is the created record if and only if InsertArticle was
\* called and returned no error.
C23_OutcomesAndCreated ==
  \A r \in clients :
    variant \in {"gemini_local", "exa"} =>
      /\ pc[r] = "done" <=> outcome[r] # "none"
      /\ pc[r] = "done" =>
           outcome[r] \in {"created", "already_exists", "rejected", "exhausted",
                           "extraction_error", "incomplete", "timeout",
                           "invalid_request", "db_error", "insert_error"}
      /\ outcome[r] = "created" <=> insertCalls[r] = 1 /\ insertErr[r] = "nil"
      /\ insertErr[r] = "nil" => articleLink[r] \in StoredLinks

C23_Witness ==
  \E r \in clients :
    /\ variant \in {"gemini_local", "exa"}
    /\ pc[r] = "done"
    /\ insertCalls[r] = 1
    /\ insertErr[r] = "error"
    /\ outcome[r] = "insert_error"

\* C24: after the local extraction DateFound holds only if a date string of
\* the page (a candidate of the meta tags, the time element or the visible
\* text, or the datePublished of a JSON-LD article block) parsed, and then
\* DatePublished is that date as a UTC day; without DateFound, and so when no
\* string parses, DatePublished is empty.
PageDateStrings ==
  {arg.candidates[i] : i \in 1..Len(arg.candidates)}
    \cup {arg.blocks[i].datePublished :
            i \in {j \in 1..Len(arg.blocks) : arg.blocks[j].type # "other"}}

C24_DateHintNotFabricated ==
  ret.fn = "dates" /\ ret.status = "done" =>
    /\ ret.h.DateFound =>
         \E d \in PageDateStrings \cap {"rfc_utc", "rfc_offset", "textual"} :
           ret.h.DatePublished = FormatUTC(d)
    /\ ~ret.h.DateFound => ret.h.DatePublished = ""
    /\ PageDateStrings \cap {"rfc_utc", "rfc_offset", "textual"} = {} =>
         ~ret.h.DateFound

\* C25: when the page has a JSON-LD block of an article type with a
\* non-empty author name, the author hint is the names of such a block
\* (non-empty, each once, in order) whatever the cascade found; when it has
\* none, the hint is what the first matching method of the cascade found, or
\* not-found.
NamesOf(blockAuthors) ==
  {blockAuthors[i] : i \in 1..Len(blockAuthors)} \ {""}

AuthorBlocks ==
  {i \in 1..Len(arg.blocks) :
     arg.blocks[i].type \in {"string", "array"}
       /\ NamesOf(arg.blocks[i].authors) # {}}

IsJoinOf(author, blockAuthors) ==
  /\ {author[i] : i \in 1..Len(author)} = NamesOf(blockAuthors)
  /\ \A i, j \in 1..Len(author) : i # j => author[i] # author[j]
  /\ \A i, j \in 1..Len(author) :
       i < j => \E k \in 1..Len(blockAuthors) :
                  /\ blockAuthors[k] = author[i]
                  /\ \A l \in 1..k : blockAuthors[l] # author[j]

C25_JsonLdAuthorOverrides ==
  ret.fn = "authors" /\ ret.status = "done" =>
    IF AuthorBlocks # {}
      THEN /\ ret.h.AuthorFound
           /\ \E i \in AuthorBlocks : IsJoinOf(ret.h.Author, arg.blocks[i].authors)
      ELSE IF arg.matched = {}
        THEN ~ret.h.AuthorFound /\ ret.h.Author = <<>>
      ELSE /\ ret.h.AuthorFound
           /\ ret.h.Author =
                MethodAuthors(CHOOSE m \in arg.matched : \A n \in arg.matched : m <= n)

C25_Witness ==
  /\ ret.fn = "authors"
  /\ ret.status = "done"
  /\ arg.matched = {1, 3}
  /\ AuthorBlocks # {}
  /\ ret.h.Author = <<"B", "A">>

NoInsertOutcomes ==
  {"invalid_request", "already_exists", "rejected", "exhausted", "timeout",
   "extraction_error", "incomplete"}

\* C27: the store changes only in the step in which a request's insert
\* succeeds and the request ends with the created record; a request that
\* ends as invalid request, already-exists, Rejected, Exhausted, deadline
\* timeout, extraction error or validation failure never called
\* InsertArticle, and no request that ends without a created record has
\* changed the store.
C27_OnlyCreatedChangesStore ==
  [][/\ store' # store =>
          \E r \in clients :
            /\ pc[r] = "insert"
            /\ pc'[r] = "done"
            /\ outcome'[r] = "created"
            /\ insertErr'[r] = "nil"
            /\ \A q \in clients \ {r} : outcome'[q] = outcome[q]
     /\ store' = store =>
          \A r \in clients : outcome'[r] # outcome[r] => outcome'[r] # "created"
     /\ \A r \in clients :
          pc'[r] = "done" /\ outcome'[r] \in NoInsertOutcomes =>
            insertCalls'[r] = 0 /\ insertErr'[r] = "none"]_vars

C27_Witness ==
  /\ Len(store) = 1
  /\ \E r \in clients :
       /\ pc[r] = "done"
       /\ outcome[r] = "exhausted"
       /\ attempts[r] >= 1
       /\ insertCalls[r] = 0

\* The last attempt of request r returned a parsed result with type >= 0.
Succeeded(r) ==
  attempts[r] >= 1 /\ geminiErr[r] = "nil" /\ ~geminiResult[r].nil
    /\ geminiResult[r].type >= 0

\* Request r is in the fetch or the retry loop.
InLoop(r) == IF r \in clients THEN pc[r] \in {"fetch", "loop"} ELSE FALSE

\* Request r has ended with a response.
Responded(r) ==
  IF r \in clients THEN pc[r] = "done" /\ outcome[r] \notin {"none", "panic"}
                    ELSE FALSE

IsInteger(s) == s.kind = "int"

\* C29: a page parameter that is not an integer (or not one an int holds)
\* or is below 1 is answered as an invalid request without any storage
\* call; for a page >= 1 GetArticlePage is only called with
\* 0 <= offset < total, the offset being (page-1)*10 in int arithmetic; and
\* when the count succeeded and offset < 0, offset >= total or total = 0 the
\* response is the empty list with the table's row count and no page query.
C29_PageBounds ==
  ret.fn = "page" /\ ret.status \notin {"received", "paged"} =>
    LET s == arg.pageStr
        total == Len(arg.table)
        rejected == s.kind = "text"
                      \/ (IsInteger(s) /\ (s.n < 1 \/ s.n > 2^(IntBits - 1) - 1))
        page == IF s.kind = "empty" THEN 1 ELSE s.n
        product == (page - 1) * 10
        offset == IF product % (2^IntBits) >= 2^(IntBits - 1)
                    THEN (product % (2^IntBits)) - 2^IntBits
                    ELSE product % (2^IntBits)
    IN /\ rejected <=> ret.status = "invalid_request"
       /\ rejected => ret.calls = <<>>
       /\ \A i \in 1..Len(ret.calls) :
            ret.calls[i].call = "page" =>
              /\ ret.calls[i].offset = offset
              /\ ret.calls[i].limit = 10
              /\ 0 <= ret.calls[i].offset
              /\ ret.calls[i].offset < total
       /\ ~rejected /\ ~arg.countErr /\ (offset < 0 \/ offset >= total \/ total = 0) =>
            /\ ret.status = "ok"
            /\ ret.articles = <<>>
            /\ ret.total = total
            /\ \A i \in 1..Len(ret.calls) : ret.calls[i].call = "count"

\* A page whose offset overflowed to a negative value is answered with the
\* empty list and the count.
C29_Witness ==
  /\ ret.fn = "page"
  /\ ret.status = "ok"
  /\ arg.pageStr.kind = "int"
  /\ (arg.pageStr.n - 1) * 10 > 2^(IntBits - 1) - 1
  /\ Len(arg.table) = MaxRows
  /\ ret.articles = <<>>
  /\ ret.total = MaxRows
  /\ Len(ret.calls) = 1

\* The number of pages of n articles: ceil(n / 10).
PagesOf(n) == (n + 9) \div 10

\* C30: the pages read so far from an unchanged table are the first
\* articles of GetAllArticles, in its order (date_read descending, then id
\* ascending), each page before the last holding exactly 10 articles; once
\* pages 1..ceil(total/10) are read their concatenation is the whole
\* listing, with every stored article exactly once.
C30_PagesPartitionListing ==
  ret.fn = "listing" /\ ret.listed =>
    LET n == Len(arg.table)
        read == Len(ret.sizes)
    IN /\ Len(ret.articles) <= Len(ret.all)
       /\ ret.articles = SubSeq(ret.all, 1, Len(ret.articles))
       /\ \A i \in 1..read :
            /\ i < PagesOf(n) => ret.sizes[i] = 10
            /\ i = PagesOf(n) => ret.sizes[i] = n - 10 * (i - 1)
       /\ read >= PagesOf(n) =>
            /\ ret.articles = ret.all
            /\ Len(ret.articles) = n
            /\ \A k \in 1..n :
                 Cardinality({j \in 1..Len(ret.articles) :
                                ret.articles[j].id = k}) = 1
            /\ \A j \in 1..(Len(ret.articles) - 1) :
                 \/ ret.articles[j].date_read > ret.articles[j + 1].date_read
                 \/ /\ ret.articles[j].date_read = ret.articles[j + 1].date_read
                    /\ ret.articles[j].id < ret.articles[j + 1].id

C30_Witness ==
  /\ ret.fn = "listing"
  /\ Len(arg.table) = MaxRows
  /\ MaxRows > 20
  /\ Len(ret.sizes) = 3
  /\ ret.sizes[1] = 10
  /\ ret.sizes[3] = MaxRows - 20
  /\ ret.articles = ret.all
  /\ \E j \in 1..(Len(ret.articles) - 1) :
       ret.articles[j].id > ret.articles[j + 1].id

====
